---- MODULE Spec2Model ----
(***************************************************************************)
(* daisser: the Owntracks ingestion pipeline of cmd/daisser/main.go.       *)
(*                                                                         *)
(* Strings are sequences of one-character strings, so that Go's string     *)
(* concatenation (lu.User + lu.TrackerID) is sequence concatenation.       *)
(***************************************************************************)
EXTENDS Integers, Sequences, FiniteSets, TLC

VARIABLES
    positions,   \* Server.positions : PositionSet, a map from string to LocationUpdate
    posMutex,    \* Server.posMutex  : sync.RWMutex, [writer, readers]
    done,        \* Server.done      : TRUE once the channel is closed
    runPc,       \* where RunServer / main stands
    connects,    \* number of calls of listener.Connect
    serving,     \* TRUE once the HTTP/FastCGI goroutine of RunServer runs
    killfile,    \* TRUE while the file "killfile" exists
    panicked,    \* TRUE once close(s.done) ran on the closed channel
    parserPc,    \* where the goroutine of owntracks.RunMessageParser stands
    parserMsg,   \* the value the parser offers on parser.L or parser.O
    delivered,   \* number of raw messages the broker connection has handed over
    loopPc,      \* where the goroutine started by Server.Listen stands
    loopMsg,     \* the value the dispatch loop received from parser.L / parser.O
    applied,     \* history: the updates handed to addPositionUpdate, in order
    logged,      \* history: number of "Received other message" log lines
    lateRecv,    \* history: receives from parser.L / parser.O after close(done)
    rPc,         \* per HTTP request of Server.Positions: where it stands
    rTodo,       \* per request: keys of the range loop not yet visited
    rSnap,       \* per request: fc.Features built so far
    hPc,         \* per HTTP request of Server.DefaultHandle: where it stands
    serveErr,    \* TRUE once http.ListenAndServe / fcgi.Serve has returned an error
    osReq,       \* NewPositionOsmand: the request handled last
    osResp,      \* NewPositionOsmand: the response written last
    dbRows,      \* the rows of the table positions, in the order of insertion
    osN          \* NewPositionOsmand: number of requests handled

vars == << positions, posMutex, done, runPc, connects, serving, killfile,
           panicked, parserPc, parserMsg, delivered, loopPc, loopMsg, applied, logged,
           lateRecv, rPc, rTodo, rSnap, hPc, serveErr, osReq, osResp, dbRows,
           osN >>

osmandVars == << osReq, osResp, dbRows, osN >>

-----------------------------------------------------------------------------
(* Bounds *)

MaxApplied == 3     \* updates handed to addPositionUpdate in one behaviour
MaxT == 2           \* timestamps (seconds since the epoch) of valid updates
MaxDelivered == 3   \* raw messages the broker connection hands over
NumReaders == 2     \* concurrent requests of /api/positions
NumHandlers == 2    \* concurrent requests handled by Server.DefaultHandle
MaxRequests == 1    \* requests of /api/insertOsmand in one behaviour
MaxWrites == 2      \* addPositionUpdate calls that run beside the readers

-----------------------------------------------------------------------------
(* Data *)

None == [none |-> TRUE]

Users == { <<"a">>, <<"a", "b">> }
Trackers == { <<>>, <<"c">>, <<"b", "c">> }
Clients == { <<"p">> }

\* owntracks.LocationUpdate with the fields main.go reads; the fields other
\* than T, User, ClientID and TrackerID are payload data, here fixed by T.
LocationUpdate(t, u, c, tid) ==
    [ T |-> t, User |-> u, ClientID |-> c, TrackerID |-> tid,
      Accuracy |-> 5 * t, Battery |-> 100 - t,
      Latitude |-> 50 + t, Longitude |-> 10 + t, Description |-> <<"d">> ]

\* The zero value of the struct: T unset, every field empty.
ZeroUpdate ==
    [ T |-> 0, User |-> <<>>, ClientID |-> <<>>, TrackerID |-> <<>>,
      Accuracy |-> 0, Battery |-> 0,
      Latitude |-> 0, Longitude |-> 0, Description |-> <<>> ]

ValidUpdates ==
    { LocationUpdate(t, u, c, tid) :
        t \in 1..MaxT, u \in Users, c \in Clients, tid \in Trackers }

EmptySet == [k \in {} |-> None]

-----------------------------------------------------------------------------
(* Position store *)

\* k := lu.User + lu.TrackerID
Key(lu) == lu.User \o lu.TrackerID

\* Variant: an update older than the stored one is rejected.
AddPositionUpdateNewer(pos, lu) ==
    IF Key(lu) \in DOMAIN pos /\ pos[Key(lu)].T > lu.T
    THEN pos
    ELSE [k \in DOMAIN pos \cup {Key(lu)} |-> IF k = Key(lu) THEN lu ELSE pos[k]]

\* Variant: the key carries the number of entries, so every call adds one.
AddPositionUpdateAppend(pos, lu) ==
    LET k0 == Key(lu) \o << IF Cardinality(DOMAIN pos) % 2 = 0 THEN "0" ELSE "1" >>
    IN  [k \in DOMAIN pos \cup {k0} |-> IF k = k0 THEN lu ELSE pos[k]]

\* s.positions[k] = lu, between posMutex.Lock() and the deferred Unlock()
AddPositionUpdate(pos, lu) ==
    [k \in DOMAIN pos \cup {Key(lu)} |-> IF k = Key(lu) THEN lu ELSE pos[k]]

-----------------------------------------------------------------------------
(* The store alone: any sequence of addPositionUpdate calls *)

\* No request of /api/insertOsmand yet, the table positions just created.
OsmandIdle ==
    /\ osReq = None
    /\ osResp = None
    /\ dbRows = <<>>
    /\ osN = 0

IdleRest ==
    /\ posMutex = [writer |-> FALSE, readers |-> 0]
    /\ done = FALSE
    /\ runPc = "Start"
    /\ connects = 0
    /\ serving = FALSE
    /\ killfile = FALSE
    /\ panicked = FALSE
    /\ parserPc = "NotStarted"
    /\ parserMsg = None
    /\ delivered = 0
    /\ loopPc = "NotStarted"
    /\ loopMsg = None
    /\ logged = 0
    /\ lateRecv = 0
    /\ rPc = <<>>
    /\ rTodo = <<>>
    /\ rSnap = <<>>
    /\ hPc = <<>>
    /\ serveErr = FALSE
    /\ OsmandIdle

InitStore ==
    /\ positions = EmptySet
    /\ applied = <<>>
    /\ IdleRest

addPositionUpdate(lu) ==
    /\ Len(applied) < MaxApplied
    /\ positions' = AddPositionUpdate(positions, lu)
    /\ applied' = Append(applied, lu)
    /\ UNCHANGED << hPc, serveErr, osmandVars, posMutex, done, runPc, connects, serving, killfile,
                    panicked, parserPc, parserMsg, delivered, loopPc, loopMsg,
                    logged, lateRecv, rPc, rTodo, rSnap >>

NextStore == \E lu \in ValidUpdates : addPositionUpdate(lu)

SpecStore == InitStore /\ [][NextStore]_vars

-----------------------------------------------------------------------------
(* Raw messages and the classifier (package owntracks) *)

Prefix == <<"o">>

GoodTopic == << Prefix, <<"a">>, <<"p">> >>
BadTopic == << <<"x">> >>

LocationPayload(t, tid) == [parses |-> TRUE, type |-> "location", tst |-> t, tid |-> tid]
PingPayload == [parses |-> TRUE, type |-> "ping", tst |-> 0, tid |-> <<>>]
GarbagePayload == [parses |-> FALSE, type |-> "", tst |-> 0, tid |-> <<>>]

RawMessages ==
    { [topic |-> GoodTopic, payload |-> LocationPayload(t, <<"c">>)] : t \in 1..MaxT }
    \cup { [topic |-> BadTopic, payload |-> LocationPayload(1, <<"c">>)],
           [topic |-> GoodTopic, payload |-> PingPayload],
           [topic |-> GoodTopic, payload |-> GarbagePayload] }

\* The topic is the fixed prefix followed by exactly two segments.
ValidTopic(topic) == Len(topic) = 3 /\ topic[1] = Prefix

\* Decoding of a location payload: user and client from the topic, the rest
\* from the payload; any other topic shape gives the zero value.
NewLocationUpdate(m) ==
    IF ValidTopic(m.topic)
    THEN LocationUpdate(m.payload.tst, m.topic[2], m.topic[3], m.payload.tid)
    ELSE ZeroUpdate

\* What the parser does with one raw message: drop it, pass it on parser.O,
\* or offer the decoded update on parser.L.
Classify(m) ==
    IF ~m.payload.parses THEN [to |-> "Drop", value |-> None]
    ELSE IF m.payload.type # "location" THEN [to |-> "O", value |-> m]
    ELSE [to |-> "L", value |-> NewLocationUpdate(m)]

-----------------------------------------------------------------------------
(* The process: RunServer, Listen, the parser, the dispatch loop, requests *)

Init ==
    /\ positions = EmptySet
    /\ applied = <<>>
    /\ IdleRest

\* The process runs until main returns.
Alive == runPc \in {"Start", "ListenFailed", "Listening", "Select"}

\* Variant of Listen: the error of Connect is returned, but the goroutines
\* are started all the same.
ListenStartsAnyway(ok) ==
    /\ runPc = "Start"
    /\ connects' = connects + 1
    /\ parserPc' = "Recv"
    /\ loopPc' = "Select"
    /\ runPc' = IF ok THEN "Listening" ELSE "ListenFailed"
    /\ UNCHANGED << hPc, serveErr, osmandVars, positions, posMutex, done, serving, killfile, panicked,
                    parserMsg, delivered, loopMsg, applied, logged, lateRecv,
                    rPc, rTodo, rSnap >>

\* Server.Listen, called by RunServer: Connect once; on an error return it;
\* otherwise start the parser and the dispatch goroutine and return nil.
Listen(ok) ==
    /\ runPc = "Start"
    /\ connects' = connects + 1
    /\ IF ok
       THEN /\ parserPc' = "Recv"
            /\ loopPc' = "Select"
            /\ runPc' = "Listening"
       ELSE /\ runPc' = "ListenFailed"
            /\ UNCHANGED << hPc, serveErr, osmandVars, parserPc, loopPc >>
    /\ UNCHANGED << hPc, serveErr, osmandVars, positions, posMutex, done, serving, killfile, panicked,
                    parserMsg, delivered, loopMsg, applied, logged, lateRecv,
                    rPc, rTodo, rSnap >>

\* RunServer: if err := s.Listen(); err != nil { return err }; main logs it
\* and returns.
RunServerReturnErr ==
    /\ runPc = "ListenFailed"
    /\ runPc' = "ReturnedErr"
    /\ UNCHANGED << hPc, serveErr, osmandVars, positions, posMutex, done, connects, serving, killfile,
                    panicked, parserPc, parserMsg, delivered, loopPc, loopMsg,
                    applied, logged, lateRecv, rPc, rTodo, rSnap >>

\* RunServer: go func() { http.ListenAndServe / fcgi.Serve }(), then select.
RunServerServe ==
    /\ runPc = "Listening"
    /\ serving' = TRUE
    /\ runPc' = "Select"
    /\ UNCHANGED << hPc, serveErr, osmandVars, positions, posMutex, done, connects, killfile, panicked,
                    parserPc, parserMsg, delivered, loopPc, loopMsg, applied,
                    logged, lateRecv, rPc, rTodo, rSnap >>

\* RunServer: case <-s.done: return nil.  Nothing ever sends on errc.
RunServerReturnNil ==
    /\ runPc = "Select"
    /\ done
    /\ runPc' = "ReturnedNil"
    /\ UNCHANGED << hPc, serveErr, osmandVars, positions, posMutex, done, connects, serving, killfile,
                    panicked, parserPc, parserMsg, delivered, loopPc, loopMsg,
                    applied, logged, lateRecv, rPc, rTodo, rSnap >>

\* The goroutine of RunServer: http.ListenAndServe / fcgi.Serve returns an
\* error; the goroutine returns it to nobody and ends (errc gets no value).
ServeFails ==
    /\ Alive
    /\ serving
    /\ serving' = FALSE
    /\ serveErr' = TRUE
    /\ UNCHANGED << hPc, osmandVars, positions, posMutex, done, runPc, connects,
                    killfile, panicked, parserPc, parserMsg, delivered, loopPc,
                    loopMsg, applied, logged, lateRecv, rPc, rTodo, rSnap >>

\* Somebody creates the file "killfile".
TouchKillfile ==
    /\ Alive
    /\ ~killfile
    /\ killfile' = TRUE
    /\ UNCHANGED << hPc, serveErr, osmandVars, positions, posMutex, done, runPc, connects, serving,
                    panicked, parserPc, parserMsg, delivered, loopPc, loopMsg,
                    applied, logged, lateRecv, rPc, rTodo, rSnap >>

\* Server.DefaultHandle with the killfile present: remove it, close(s.done).
\* Closing the closed channel panics.
DefaultHandle ==
    /\ Alive
    /\ serving
    /\ killfile
    /\ killfile' = FALSE
    /\ done' = TRUE
    /\ panicked' = (panicked \/ done)
    /\ UNCHANGED << hPc, serveErr, osmandVars, positions, posMutex, runPc, connects, serving, parserPc,
                    parserMsg, delivered, loopPc, loopMsg, applied, logged,
                    lateRecv, rPc, rTodo, rSnap >>

\* The parser takes the next raw message from the connection and classifies
\* it; it takes no further message once done is closed.
ParserRecv(m) ==
    /\ Alive
    /\ parserPc = "Recv"
    /\ ~done
    /\ delivered < MaxDelivered
    /\ delivered' = delivered + 1
    /\ LET c == Classify(m)
       IN  /\ parserPc' = (IF c.to = "Drop" THEN "Recv" ELSE "Send" \o c.to)
           /\ parserMsg' = c.value
    /\ UNCHANGED << hPc, serveErr, osmandVars, positions, posMutex, done, runPc, connects, serving,
                    killfile, panicked, loopPc, loopMsg, applied, logged,
                    lateRecv, rPc, rTodo, rSnap >>

\* The parser returns once done is closed.
ParserStop ==
    /\ Alive
    /\ parserPc \in {"Recv", "SendL", "SendO"}
    /\ done
    /\ parserPc' = "Stopped"
    /\ parserMsg' = None
    /\ UNCHANGED << hPc, serveErr, osmandVars, positions, posMutex, done, runPc, connects, serving,
                    killfile, panicked, delivered, loopPc, loopMsg, applied,
                    logged, lateRecv, rPc, rTodo, rSnap >>

\* Dispatch loop: case <-s.done: (empty body), back to the head of for.
LoopDone ==
    /\ Alive
    /\ loopPc = "Select"
    /\ done
    /\ loopPc' = "DoneCase"
    /\ UNCHANGED << hPc, serveErr, osmandVars, positions, posMutex, done, runPc, connects, serving,
                    killfile, panicked, parserPc, parserMsg, delivered,
                    loopMsg, applied, logged, lateRecv, rPc, rTodo, rSnap >>

LoopAgain ==
    /\ Alive
    /\ loopPc = "DoneCase"
    /\ loopPc' = "Select"
    /\ UNCHANGED << hPc, serveErr, osmandVars, positions, posMutex, done, runPc, connects, serving,
                    killfile, panicked, parserPc, parserMsg, delivered,
                    loopMsg, applied, logged, lateRecv, rPc, rTodo, rSnap >>

\* Dispatch loop: case l := <-parser.L (the unbuffered channel: the parser's
\* send and this receive are one step).
LoopRecvL ==
    /\ Alive
    /\ loopPc = "Select"
    /\ parserPc = "SendL"
    /\ loopMsg' = parserMsg
    /\ loopPc' = "GotL"
    /\ parserPc' = "Recv"
    /\ parserMsg' = None
    /\ lateRecv' = lateRecv + (IF done THEN 1 ELSE 0)
    /\ UNCHANGED << hPc, serveErr, osmandVars, positions, posMutex, done, runPc, connects, serving,
                    killfile, panicked, delivered, applied, logged, rPc,
                    rTodo, rSnap >>

\* Dispatch loop: fmt.Println(l); s.addPositionUpdate(l).
LoopApply ==
    /\ Alive
    /\ loopPc = "GotL"
    /\ positions' = AddPositionUpdate(positions, loopMsg)
    /\ applied' = Append(applied, loopMsg)
    /\ loopPc' = "Select"
    /\ loopMsg' = None
    /\ UNCHANGED << hPc, serveErr, osmandVars, posMutex, done, runPc, connects, serving, killfile,
                    panicked, parserPc, parserMsg, delivered, logged,
                    lateRecv, rPc, rTodo, rSnap >>

\* Variant of the parser.O case: the message is stored as if it were an update.
LoopOtherStores ==
    /\ Alive
    /\ loopPc = "Select"
    /\ parserPc = "SendO"
    /\ positions' = AddPositionUpdate(positions, NewLocationUpdate(parserMsg))
    /\ logged' = logged + 1
    /\ parserPc' = "Recv"
    /\ parserMsg' = None
    /\ lateRecv' = lateRecv + (IF done THEN 1 ELSE 0)
    /\ UNCHANGED << hPc, serveErr, osmandVars, posMutex, done, runPc, connects, serving, killfile,
                    panicked, delivered, loopPc, loopMsg, applied, rPc,
                    rTodo, rSnap >>

\* Dispatch loop: case m := <-parser.O: logger.Printf(...).
LoopOther ==
    /\ Alive
    /\ loopPc = "Select"
    /\ parserPc = "SendO"
    /\ logged' = logged + 1
    /\ parserPc' = "Recv"
    /\ parserMsg' = None
    /\ lateRecv' = lateRecv + (IF done THEN 1 ELSE 0)
    /\ UNCHANGED << hPc, serveErr, osmandVars, positions, posMutex, done, runPc, connects, serving,
                    killfile, panicked, delivered, loopPc, loopMsg, applied,
                    rPc, rTodo, rSnap >>

RunServerStep ==
    \/ \E ok \in BOOLEAN : Listen(ok)
    \/ RunServerReturnErr
    \/ RunServerServe
    \/ RunServerReturnNil

LoopStep ==
    \/ LoopDone
    \/ LoopAgain
    \/ LoopRecvL
    \/ LoopApply
    \/ LoopOther

Next ==
    \/ RunServerStep
    \/ LoopStep
    \/ ServeFails
    \/ TouchKillfile
    \/ DefaultHandle
    \/ \E m \in RawMessages : ParserRecv(m)
    \/ ParserStop

Spec == Init /\ [][Next]_vars

\* The Go scheduler runs every goroutine that can take a step.
FairSpec == Spec /\ WF_vars(RunServerStep) /\ WF_vars(LoopStep)

-----------------------------------------------------------------------------
(* Rendering of the snapshot *)

Digit(d) == CASE d = 0 -> "0" [] d = 1 -> "1" [] d = 2 -> "2" [] d = 3 -> "3"
              [] d = 4 -> "4" [] d = 5 -> "5" [] d = 6 -> "6" [] d = 7 -> "7"
              [] d = 8 -> "8" [] d = 9 -> "9"

RECURSIVE Itoa(_)
\* strconv.Itoa for the naturals
Itoa(n) == IF n < 10 THEN << Digit(n) >> ELSE Itoa(n \div 10) \o << Digit(n % 10) >>

\* time.Time.String(), for a time given in seconds: the seconds and a unit.
TimeString(t) == Itoa(t) \o <<"s">>

\* Variant of the feature: the coordinates are [latitude, longitude].
FeatureLatLon(v) ==
    [ Type |-> "Feature",
      Properties |-> [ Time |-> TimeString(v.T), User |-> v.User,
                       Client |-> v.ClientID, Tracker |-> v.TrackerID,
                       Accuracy |-> Itoa(v.Accuracy),
                       Description |-> v.Description ],
      Geometry |-> [ Type |-> "Point",
                     Coordinates |-> << v.Latitude, v.Longitude >> ] ]

\* One Feature of the FeatureCollection built by Server.Positions.
Feature(v) ==
    [ Type |-> "Feature",
      Properties |-> [ Time |-> TimeString(v.T), User |-> v.User,
                       Client |-> v.ClientID, Tracker |-> v.TrackerID,
                       Accuracy |-> Itoa(v.Accuracy),
                       Description |-> v.Description ],
      Geometry |-> [ Type |-> "Point",
                     Coordinates |-> << v.Longitude, v.Latitude >> ] ]

-----------------------------------------------------------------------------
(* The store under its lock: addPositionUpdate beside Server.Positions *)

Readers == 1..NumReaders

LockUpdates ==
    { LocationUpdate(t, <<"a">>, <<"p">>, tid) : t \in 1..MaxT, tid \in {<<>>, <<"c">>} }

InitLock ==
    /\ positions = EmptySet
    /\ applied = <<>>
    /\ posMutex = [writer |-> FALSE, readers |-> 0]
    /\ done = FALSE
    /\ runPc = "Select"
    /\ connects = 1
    /\ serving = TRUE
    /\ killfile = FALSE
    /\ panicked = FALSE
    /\ parserPc = "Recv"
    /\ parserMsg = None
    /\ delivered = 0
    /\ loopPc = "Select"
    /\ loopMsg = None
    /\ logged = 0
    /\ lateRecv = 0
    /\ rPc = [r \in Readers |-> "Idle"]
    /\ rTodo = [r \in Readers |-> {}]
    /\ rSnap = [r \in Readers |-> <<>>]
    /\ hPc = <<>>
    /\ serveErr = FALSE
    /\ OsmandIdle

\* The record under a key while the assignment of a struct value is half
\* done: the first fields are the new ones, the others still the old ones.
HalfWritten(pos, lu) ==
    LET old == IF Key(lu) \in DOMAIN pos THEN pos[Key(lu)] ELSE ZeroUpdate
        mix == [old EXCEPT !.T = lu.T, !.User = lu.User,
                           !.ClientID = lu.ClientID, !.TrackerID = lu.TrackerID]
    IN  [k \in DOMAIN pos \cup {Key(lu)} |-> IF k = Key(lu) THEN mix ELSE pos[k]]

\* The dispatch loop has received l and calls s.addPositionUpdate(l).
WriterCall(lu) ==
    /\ loopPc = "Select"
    /\ Len(applied) < MaxWrites
    /\ loopPc' = "GotL"
    /\ loopMsg' = lu
    /\ UNCHANGED << hPc, serveErr, osmandVars, positions, posMutex, done, runPc, connects, serving,
                    killfile, panicked, parserPc, parserMsg, delivered,
                    applied, logged, lateRecv, rPc, rTodo, rSnap >>

\* s.posMutex.Lock(): waits until no reader and no writer holds the lock.
WriterLock ==
    /\ loopPc = "GotL"
    /\ ~posMutex.writer
    /\ posMutex.readers = 0
    /\ posMutex' = [posMutex EXCEPT !.writer = TRUE]
    /\ loopPc' = "Locked"
    /\ UNCHANGED << hPc, serveErr, osmandVars, positions, done, runPc, connects, serving, killfile,
                    panicked, parserPc, parserMsg, delivered, loopMsg,
                    applied, logged, lateRecv, rPc, rTodo, rSnap >>

\* s.positions[k] = lu, begun.
WriterStoreBegin ==
    /\ loopPc = "Locked"
    /\ positions' = HalfWritten(positions, loopMsg)
    /\ loopPc' = "Writing"
    /\ UNCHANGED << hPc, serveErr, osmandVars, posMutex, done, runPc, connects, serving, killfile,
                    panicked, parserPc, parserMsg, delivered, loopMsg,
                    applied, logged, lateRecv, rPc, rTodo, rSnap >>

\* s.positions[k] = lu, completed.
WriterStoreEnd ==
    /\ loopPc = "Writing"
    /\ positions' = AddPositionUpdate(positions, loopMsg)
    /\ applied' = Append(applied, loopMsg)
    /\ loopPc' = "Written"
    /\ UNCHANGED << hPc, serveErr, osmandVars, posMutex, done, runPc, connects, serving, killfile,
                    panicked, parserPc, parserMsg, delivered, loopMsg,
                    logged, lateRecv, rPc, rTodo, rSnap >>

\* The deferred s.posMutex.Unlock() as addPositionUpdate returns.
WriterUnlock ==
    /\ loopPc = "Written"
    /\ posMutex' = [posMutex EXCEPT !.writer = FALSE]
    /\ loopPc' = "Select"
    /\ loopMsg' = None
    /\ UNCHANGED << hPc, serveErr, osmandVars, positions, done, runPc, connects, serving, killfile,
                    panicked, parserPc, parserMsg, delivered, applied,
                    logged, lateRecv, rPc, rTodo, rSnap >>

\* Variant of RLock: the reader does not wait for the writer.
PositionsRLockNoWait(r) ==
    /\ rPc[r] = "Idle"
    /\ posMutex' = [posMutex EXCEPT !.readers = @ + 1]
    /\ rPc' = [rPc EXCEPT ![r] = "Ranging"]
    /\ rTodo' = [rTodo EXCEPT ![r] = DOMAIN positions]
    /\ rSnap' = [rSnap EXCEPT ![r] = <<>>]
    /\ UNCHANGED << hPc, serveErr, osmandVars, positions, done, runPc, connects, serving, killfile,
                    panicked, parserPc, parserMsg, delivered, loopPc, loopMsg,
                    applied, logged, lateRecv >>

\* Server.Positions: s.posMutex.RLock(), which waits while a writer holds
\* the lock, and the start of the range over s.positions.
PositionsRLock(r) ==
    /\ rPc[r] = "Idle"
    /\ ~posMutex.writer
    /\ posMutex' = [posMutex EXCEPT !.readers = @ + 1]
    /\ rPc' = [rPc EXCEPT ![r] = "Ranging"]
    /\ rTodo' = [rTodo EXCEPT ![r] = DOMAIN positions]
    /\ rSnap' = [rSnap EXCEPT ![r] = <<>>]
    /\ UNCHANGED << hPc, serveErr, osmandVars, positions, done, runPc, connects, serving, killfile,
                    panicked, parserPc, parserMsg, delivered, loopPc, loopMsg,
                    applied, logged, lateRecv >>

\* Variant of the range: the entry rendered is taken out of the store.
PositionsRangeConsumes(r) ==
    /\ rPc[r] = "Ranging"
    /\ \E k \in rTodo[r] :
         /\ rSnap' = [rSnap EXCEPT ![r] = Append(@, Feature(positions[k]))]
         /\ rTodo' = [rTodo EXCEPT ![r] = @ \ {k}]
         /\ positions' = [j \in DOMAIN positions \ {k} |-> positions[j]]
    /\ UNCHANGED << hPc, serveErr, osmandVars, posMutex, done, runPc, connects, serving,
                    killfile, panicked, parserPc, parserMsg, delivered,
                    loopPc, loopMsg, applied, logged, lateRecv, rPc >>

\* Server.Positions: one iteration of for _, v := range s.positions, in an
\* order the map chooses.
PositionsRange(r) ==
    /\ rPc[r] = "Ranging"
    /\ \E k \in rTodo[r] :
         /\ rSnap' = [rSnap EXCEPT ![r] = Append(@, Feature(positions[k]))]
         /\ rTodo' = [rTodo EXCEPT ![r] = @ \ {k}]
    /\ UNCHANGED << hPc, serveErr, osmandVars, positions, posMutex, done, runPc, connects, serving,
                    killfile, panicked, parserPc, parserMsg, delivered,
                    loopPc, loopMsg, applied, logged, lateRecv, rPc >>

\* Server.Positions: s.posMutex.RUnlock() after the range; the collection is
\* then marshalled and written.
PositionsRUnlock(r) ==
    /\ rPc[r] = "Ranging"
    /\ rTodo[r] = {}
    /\ posMutex' = [posMutex EXCEPT !.readers = @ - 1]
    /\ rPc' = [rPc EXCEPT ![r] = "Written"]
    /\ UNCHANGED << hPc, serveErr, osmandVars, positions, done, runPc, connects, serving, killfile,
                    panicked, parserPc, parserMsg, delivered, loopPc, loopMsg,
                    applied, logged, lateRecv, rTodo, rSnap >>

\* The next request of /api/positions.
PositionsAgain(r) ==
    /\ rPc[r] = "Written"
    /\ rPc' = [rPc EXCEPT ![r] = "Idle"]
    /\ rSnap' = [rSnap EXCEPT ![r] = <<>>]
    /\ UNCHANGED << hPc, serveErr, osmandVars, positions, posMutex, done, runPc, connects, serving,
                    killfile, panicked, parserPc, parserMsg, delivered,
                    loopPc, loopMsg, applied, logged, lateRecv, rTodo >>

NextLock ==
    \/ \E lu \in LockUpdates : WriterCall(lu)
    \/ WriterLock
    \/ WriterStoreBegin
    \/ WriterStoreEnd
    \/ WriterUnlock
    \/ \E r \in Readers : PositionsRLock(r)
    \/ \E r \in Readers : PositionsRange(r)
    \/ \E r \in Readers : PositionsRUnlock(r)
    \/ \E r \in Readers : PositionsAgain(r)

SpecLock == InitLock /\ [][NextLock]_vars

-----------------------------------------------------------------------------
(* Concurrent requests of Server.DefaultHandle around the killfile *)

Handlers == 1..NumHandlers

InitKill ==
    /\ positions = EmptySet
    /\ applied = <<>>
    /\ posMutex = [writer |-> FALSE, readers |-> 0]
    /\ done = FALSE
    /\ runPc = "Select"
    /\ connects = 1
    /\ serving = TRUE
    /\ killfile = FALSE
    /\ panicked = FALSE
    /\ parserPc = "Recv"
    /\ parserMsg = None
    /\ delivered = 0
    /\ loopPc = "Select"
    /\ loopMsg = None
    /\ logged = 0
    /\ lateRecv = 0
    /\ rPc = <<>>
    /\ rTodo = <<>>
    /\ rSnap = <<>>
    /\ hPc = [h \in Handlers |-> "Idle"]
    /\ serveErr = FALSE
    /\ OsmandIdle

\* DefaultHandle: the page is served, then os.Stat("killfile") finds the file.
HandleStat(h) ==
    /\ Alive
    /\ serving
    /\ hPc[h] = "Idle"
    /\ killfile
    /\ hPc' = [hPc EXCEPT ![h] = "Found"]
    /\ UNCHANGED << serveErr, osmandVars, positions, posMutex, done, runPc,
                    connects, serving, killfile, panicked, parserPc, parserMsg,
                    delivered, loopPc, loopMsg, applied, logged, lateRecv,
                    rPc, rTodo, rSnap >>

\* DefaultHandle: os.Remove("killfile"); its error is not looked at.
HandleRemove(h) ==
    /\ Alive
    /\ hPc[h] = "Found"
    /\ killfile' = FALSE
    /\ hPc' = [hPc EXCEPT ![h] = "Removed"]
    /\ UNCHANGED << serveErr, osmandVars, positions, posMutex, done, runPc,
                    connects, serving, panicked, parserPc, parserMsg,
                    delivered, loopPc, loopMsg, applied, logged, lateRecv,
                    rPc, rTodo, rSnap >>

\* DefaultHandle: close(s.done), which panics on the closed channel; the
\* request ends either way.
HandleClose(h) ==
    /\ Alive
    /\ hPc[h] = "Removed"
    /\ done' = TRUE
    /\ panicked' = (panicked \/ done)
    /\ hPc' = [hPc EXCEPT ![h] = "Idle"]
    /\ UNCHANGED << serveErr, osmandVars, positions, posMutex, runPc,
                    connects, serving, killfile, parserPc, parserMsg,
                    delivered, loopPc, loopMsg, applied, logged, lateRecv,
                    rPc, rTodo, rSnap >>

NextKill ==
    \/ TouchKillfile
    \/ \E h \in Handlers : HandleStat(h)
    \/ \E h \in Handlers : HandleRemove(h)
    \/ \E h \in Handlers : HandleClose(h)
    \/ LoopDone
    \/ LoopAgain
    \/ RunServerReturnNil

SpecKill == InitKill /\ [][NextKill]_vars

-----------------------------------------------------------------------------
(* NewPositionOsmand: /api/insertOsmand *)

IsDigit(c) == c \in {"0", "1", "2", "3", "4", "5", "6", "7", "8", "9"}

DigitValue(c) == CHOOSE d \in 0..9 : Digit(d) = c

RECURSIVE Mantissa(_, _, _, _)
\* The digits of s from position i on, with at most one point: the number
\* made of the digits and how many of them follow the point; bad on any
\* other character.
Mantissa(s, i, acc, st) ==
    IF i > Len(s) THEN [bad |-> st.digits = 0, n |-> acc, frac |-> st.frac]
    ELSE IF IsDigit(s[i])
         THEN Mantissa(s, i + 1, 10 * acc + DigitValue(s[i]),
                       [st EXCEPT !.digits = @ + 1,
                                  !.frac = IF st.point THEN @ + 1 ELSE @])
    ELSE IF s[i] = "." /\ ~st.point
         THEN Mantissa(s, i + 1, acc, [st EXCEPT !.point = TRUE])
    ELSE [bad |-> TRUE, n |-> 0, frac |-> 0]

\* strconv.ParseFloat(s, 64) on decimal numerals: an optional sign, digits
\* with at most one point.  The value is n / 10^frac.
ParseFloat(s) ==
    LET signed == Len(s) > 0 /\ s[1] \in {"+", "-"}
        m == Mantissa(s, IF signed THEN 2 ELSE 1, 0,
                      [digits |-> 0, frac |-> 0, point |-> FALSE])
    IN  IF m.bad THEN [err |-> TRUE, val |-> [n |-> 0, frac |-> 0]]
        ELSE [err |-> FALSE,
              val |-> [n |-> IF signed /\ s[1] = "-" THEN 0 - m.n ELSE m.n,
                       frac |-> m.frac]]

\* var lat, lon, alt, hdop, speed float64
ZeroFloat == [n |-> 0, frac |-> 0]

Args == {"lat", "lon", "altitude", "hdop", "speed"}

\* The values a request may give to an argument; r.Form holds a list of
\* values per name.
FormValues(a) ==
    CASE a = "lat" -> { << <<"1", ".", "5">> >>, << <<"x">> >>, << <<"2">>, <<"x">> >> }
      [] a = "lon" -> { << <<"-", "2">> >>, << <<"1", "x">> >> }
      [] a = "altitude" -> { << <<"3">> >> }
      [] a = "hdop" -> { << <<>> >> }
      [] a = "speed" -> { << <<".", "5">> >>, << <<"1", ".", "2", ".", "3">> >> }

AllFormValues == UNION { FormValues(a) : a \in Args }

Forms ==
    UNION { { f \in [A -> AllFormValues] : \A a \in A : f[a] \in FormValues(a) } :
            A \in SUBSET Args }

\* A request: its form, whether r.ParseForm() returns an error, and whether
\* the INSERT fails in the database.
OsmandRequests ==
    [ form : Forms, parseFormErr : BOOLEAN, dbErr : BOOLEAN ]

HttpError(code) == [status |-> code, body |-> "error"]

\* The table positions may hold rows of an earlier run of the program.
OldRow ==
    [ ts |-> 0, person |-> "fabian", lat |-> ZeroFloat, lon |-> ZeroFloat,
      alt |-> ZeroFloat, speed |-> ZeroFloat, hdop |-> ZeroFloat ]

\* Variant of the handler: a speed that does not parse is not answered with
\* an error, the row is inserted with speed 0.
OsmandNoSpeedCheck(req, rows, now) ==
    LET f == req.form
        Bad(a) == a \in DOMAIN f /\ ParseFloat(f[a][1]).err
        Value(a) == IF a \in DOMAIN f /\ ~Bad(a) THEN ParseFloat(f[a][1]).val ELSE ZeroFloat
    IN  IF req.parseFormErr THEN [resp |-> HttpError(500), rows |-> rows]
        ELSE IF "lat" \notin DOMAIN f \/ Bad("lat") THEN [resp |-> HttpError(400), rows |-> rows]
        ELSE IF "lon" \notin DOMAIN f \/ Bad("lon") THEN [resp |-> HttpError(400), rows |-> rows]
        ELSE IF Bad("altitude") THEN [resp |-> HttpError(400), rows |-> rows]
        ELSE IF Bad("hdop") THEN [resp |-> HttpError(400), rows |-> rows]
        ELSE IF req.dbErr THEN [resp |-> HttpError(500), rows |-> rows]
        ELSE [resp |-> [status |-> 200, body |-> "ok"],
              rows |-> Append(rows,
                         [ ts |-> now, person |-> "fabian",
                           lat |-> Value("lat"), lon |-> Value("lon"),
                           alt |-> Value("altitude"), speed |-> Value("speed"),
                           hdop |-> Value("hdop") ])]

\* NewPositionOsmand: the response written and the table afterwards.
Osmand(req, rows, now) ==
    LET f == req.form
        Bad(a) == ParseFloat(f[a][1]).err
        Value(a) == IF a \in DOMAIN f THEN ParseFloat(f[a][1]).val ELSE ZeroFloat
    IN  IF req.parseFormErr THEN [resp |-> HttpError(500), rows |-> rows]
        ELSE IF "lat" \notin DOMAIN f THEN [resp |-> HttpError(400), rows |-> rows]
        ELSE IF Bad("lat") THEN [resp |-> HttpError(400), rows |-> rows]
        ELSE IF "lon" \notin DOMAIN f THEN [resp |-> HttpError(400), rows |-> rows]
        ELSE IF Bad("lon") THEN [resp |-> HttpError(400), rows |-> rows]
        ELSE IF "altitude" \in DOMAIN f /\ Bad("altitude") THEN [resp |-> HttpError(400), rows |-> rows]
        ELSE IF "hdop" \in DOMAIN f /\ Bad("hdop") THEN [resp |-> HttpError(400), rows |-> rows]
        ELSE IF "speed" \in DOMAIN f /\ Bad("speed") THEN [resp |-> HttpError(400), rows |-> rows]
        ELSE IF req.dbErr THEN [resp |-> HttpError(500), rows |-> rows]
        ELSE [resp |-> [status |-> 200, body |-> "ok"],
              rows |-> Append(rows,
                         [ ts |-> now, person |-> "fabian",
                           lat |-> Value("lat"), lon |-> Value("lon"),
                           alt |-> Value("altitude"), speed |-> Value("speed"),
                           hdop |-> Value("hdop") ])]

InitOsmand ==
    /\ positions = EmptySet
    /\ applied = <<>>
    /\ posMutex = [writer |-> FALSE, readers |-> 0]
    /\ done = FALSE
    /\ runPc = "Start"
    /\ connects = 0
    /\ serving = TRUE
    /\ killfile = FALSE
    /\ panicked = FALSE
    /\ parserPc = "NotStarted"
    /\ parserMsg = None
    /\ delivered = 0
    /\ loopPc = "NotStarted"
    /\ loopMsg = None
    /\ logged = 0
    /\ lateRecv = 0
    /\ rPc = <<>>
    /\ rTodo = <<>>
    /\ rSnap = <<>>
    /\ hPc = <<>>
    /\ serveErr = FALSE
    /\ osReq = None
    /\ osResp = None
    /\ dbRows \in { <<>>, << OldRow >> }
    /\ osN = 0

NewPositionOsmand(req) ==
    /\ osN < MaxRequests
    /\ LET out == Osmand(req, dbRows, osN + 1)
       IN  /\ osResp' = out.resp
           /\ dbRows' = out.rows
    /\ osReq' = req
    /\ osN' = osN + 1
    /\ UNCHANGED << hPc, serveErr, positions, posMutex, done, runPc, connects,
                    serving, killfile, panicked, parserPc, parserMsg,
                    delivered, loopPc, loopMsg, applied, logged, lateRecv,
                    rPc, rTodo, rSnap >>

NextOsmand == \E req \in OsmandRequests : NewPositionOsmand(req)

SpecOsmand == InitOsmand /\ [][NextOsmand]_vars

-----------------------------------------------------------------------------
(* Claims about the pipeline *)

\* The dispatch goroutine has been started (the state Running of the loop).
Running == loopPc \in {"Select", "DoneCase", "GotL"}

\* C1: once done is closed while the dispatch loop is running, the loop
\* eventually leaves the for loop, calls listener.Disconnect and ends.
C1_ShutdownStopsLoop == (done /\ Running) ~> (loopPc = "Stopped")

\* C2: after done is closed the dispatch loop receives nothing more from
\* parser.L or parser.O (an update received before may still be applied).
C2_StopsConsuming == lateRecv = 0

\* C3: the store never holds a LocationUpdate whose timestamp is unset.
C3_NoZeroValueStored == \A k \in DOMAIN positions : positions[k].T # 0

\* C8: a failed Connect halts the pipeline only: when RunServer has returned
\* because of it, the HTTP/FastCGI read path has been started.
C8_ReadPathSurvivesConnectFailure == (runPc = "ReturnedErr") => serving

\* C9: after a failed Connect, Listen has returned the error, Connect was
\* called once, neither the parser nor the dispatch goroutine was started,
\* and the store is as it was created.
C9_ConnectFailureStops ==
    (runPc \in {"ListenFailed", "ReturnedErr"}) =>
        /\ connects = 1
        /\ loopPc = "NotStarted"
        /\ parserPc = "NotStarted"
        /\ positions = EmptySet
        /\ applied = <<>>

\* C9 witness: RunServer has returned the error of Listen.
C9_Witness == runPc = "ReturnedErr" /\ connects = 1 /\ ~serving

\* C10: the step that takes a message from parser.O and logs it leaves the
\* store unchanged.
C10_OtherLeavesStore == [][ logged' # logged => positions' = positions ]_vars

\* C10 witness: a message from parser.O was logged while the store held an
\* entry.
C10_Witness == logged > 0 /\ positions # EmptySet

-----------------------------------------------------------------------------
(* Claims about the lock *)

InWrite == loopPc \in {"Locked", "Writing", "Written"}

WholeFeatures == { Feature(u) : u \in LockUpdates }

\* C6: snapshot isolation: while addPositionUpdate is between Lock and Unlock
\* no request of Server.Positions is between RLock and RUnlock, and every
\* feature of every snapshot renders a whole update, never a mix of the fields
\* of two; while a snapshot is taken, its features are those of the store.
C6_SnapshotIsolation ==
    /\ InWrite => \A r \in Readers : rPc[r] # "Ranging"
    /\ \A r \in Readers : \A i \in 1..Len(rSnap[r]) :
         /\ rSnap[r][i] \in WholeFeatures
         /\ rPc[r] = "Ranging" =>
              \E k \in DOMAIN positions : rSnap[r][i] = Feature(positions[k])

\* C6 witness: a snapshot is being taken, one entry already rendered, while
\* an upsert that replaces a stored record waits for the lock.
C6_Witness ==
    /\ loopPc = "GotL"
    /\ Key(loopMsg) \in DOMAIN positions
    /\ positions[Key(loopMsg)] # loopMsg
    /\ \E r \in Readers :
         /\ rPc[r] = "Ranging"
         /\ Feature(positions[Key(loopMsg)]) \in { rSnap[r][i] : i \in 1..Len(rSnap[r]) }

-----------------------------------------------------------------------------
(* Claims about the store *)

Indices == 1..Len(applied)

\* Index of the last update handed over with user u and tracker tid.
LastIndexFor(u, tid) ==
    CHOOSE i \in Indices :
        /\ applied[i].User = u /\ applied[i].TrackerID = tid
        /\ \A j \in Indices :
              (applied[j].User = u /\ applied[j].TrackerID = tid) => j <= i

SeenPairs == { <<applied[i].User, applied[i].TrackerID>> : i \in Indices }

\* C4: the store is keyed by the pair (user, tracker): for every pair for
\* which an update was accepted the store holds, under that update's key, the
\* last update accepted for the pair; updates of other pairs never replace it.
C4_KeyedByUserAndTracker ==
    \A p \in SeenPairs :
        LET lu == applied[LastIndexFor(p[1], p[2])]
        IN  Key(lu) \in DOMAIN positions /\ positions[Key(lu)] = lu

\* Index of the last update handed over under the string key k.
LastIndexOfKey(k) ==
    CHOOSE i \in Indices :
        Key(applied[i]) = k /\ \A j \in Indices : Key(applied[j]) = k => j <= i

\* C5: latest write wins: the store holds, for every key, the update that was
\* handed to addPositionUpdate last under that key, whatever the timestamps,
\* and holds nothing else.
C5_LatestWriteWins ==
    /\ DOMAIN positions = { Key(applied[i]) : i \in Indices }
    /\ \A k \in DOMAIN positions : positions[k] = applied[LastIndexOfKey(k)]

\* C5 witness: a stale update (older timestamp) was the last one for its key
\* and is what the store holds.
C5_Witness ==
    \E i, j \in Indices :
        /\ i < j
        /\ Key(applied[i]) = Key(applied[j])
        /\ applied[i].T > applied[j].T
        /\ j = LastIndexOfKey(Key(applied[j]))
        /\ positions[Key(applied[j])] = applied[j]

\* C7: idempotence: handing addPositionUpdate the update it was handed just
\* before leaves the store as it is.
C7_Idempotent ==
    [][ ( /\ Len(applied) > 0
          /\ Len(applied') = Len(applied) + 1
          /\ applied'[Len(applied')] = applied[Len(applied)] )
        => positions' = positions ]_vars

\* C7 witness: the same update was applied twice in a row.
C7_Witness ==
    /\ Len(applied) >= 2
    /\ applied[Len(applied)] = applied[Len(applied) - 1]
    /\ positions[Key(applied[Len(applied)])] = applied[Len(applied)]

-----------------------------------------------------------------------------
(* Claims about the life of the store and its rendering *)

\* C11: the store starts empty; no step removes a key; the store changes
\* only in a step of the dispatch goroutine inside addPositionUpdate, so the
\* steps of Server.Positions leave it as it is.
C11_StoreOnlyGrows ==
    /\ positions = EmptySet
    /\ [][ /\ DOMAIN positions \subseteq DOMAIN positions'
           /\ positions' # positions =>
                /\ loopPc \in {"GotL", "Locked", "Writing"}
                /\ loopPc' # loopPc
                /\ rPc' = rPc /\ rSnap' = rSnap /\ rTodo' = rTodo
           /\ (rPc' # rPc \/ rSnap' # rSnap) => positions' = positions ]_vars

\* C11 witness: a request has rendered a store of two keys and has returned,
\* and the two keys are still there.
C11_Witness ==
    /\ Cardinality(DOMAIN positions) = 2
    /\ \E r \in Readers : rPc[r] = "Written" /\ Len(rSnap[r]) = 2

\* What a feature carries of a stored update v: the point and six properties.
HasRenderedProperties(f, v) ==
    /\ f.Type = "Feature"
    /\ f.Geometry.Type = "Point"
    /\ f.Geometry.Coordinates = << v.Longitude, v.Latitude >>
    /\ f.Properties.Time = TimeString(v.T)
    /\ f.Properties.User = v.User
    /\ f.Properties.Client = v.ClientID
    /\ f.Properties.Tracker = v.TrackerID
    /\ f.Properties.Accuracy = Itoa(v.Accuracy)
    /\ f.Properties.Description = v.Description

\* The same with the battery among the properties.
HasClaimedProperties(f, v) ==
    /\ HasRenderedProperties(f, v)
    /\ "Battery" \in DOMAIN f.Properties
    /\ f.Properties.Battery = Itoa(v.Battery)

RangeComplete(r) == rPc[r] = "Ranging" /\ rTodo[r] = {}

\* C12 as claimed: when the range of Server.Positions is complete the
\* collection holds exactly one feature per store entry, with the point
\* [longitude, latitude] and the properties time, user, client, tracker,
\* accuracy, battery and description of that entry.
C12_OneFeaturePerEntry ==
    \A r \in Readers :
        RangeComplete(r) =>
            /\ Len(rSnap[r]) = Cardinality(DOMAIN positions)
            /\ \A k \in DOMAIN positions :
                 \E i \in 1..Len(rSnap[r]) : HasClaimedProperties(rSnap[r][i], positions[k])

\* C12 as amended: the same, with the properties time, user, client,
\* tracker, accuracy and description and no others: no battery is rendered.
C12_OneFeaturePerEntryNoBattery ==
    \A r \in Readers :
        RangeComplete(r) =>
            /\ Len(rSnap[r]) = Cardinality(DOMAIN positions)
            /\ \A k \in DOMAIN positions :
                 \E i \in 1..Len(rSnap[r]) : HasRenderedProperties(rSnap[r][i], positions[k])
            /\ \A i \in 1..Len(rSnap[r]) :
                 DOMAIN rSnap[r][i].Properties =
                    {"Time", "User", "Client", "Tracker", "Accuracy", "Description"}

\* C12 witness: a request has ranged over a store of two entries.
C12_Witness ==
    \E r \in Readers :
        /\ RangeComplete(r)
        /\ Cardinality(DOMAIN positions) = 2
        /\ Len(rSnap[r]) = 2
        /\ rSnap[r][1] # rSnap[r][2]

-----------------------------------------------------------------------------
(* Claims about shutdown and the HTTP server *)

\* C13: close(s.done) never runs on the closed channel, whatever the
\* interleaving of the concurrent requests of DefaultHandle.
C13_DoneClosedOnce == ~panicked

\* C14: when http.ListenAndServe / fcgi.Serve has returned an error,
\* RunServer eventually returns instead of blocking for ever.
C14_RunServerReturnsOnServeError ==
    serveErr ~> (runPc \in {"ReturnedErr", "ReturnedNil"})

-----------------------------------------------------------------------------
(* Claims about NewPositionOsmand *)

\* lat and lon are supplied and the first value of every supplied argument
\* parses as a float.
ArgsGood(req) ==
    /\ "lat" \in DOMAIN req.form
    /\ "lon" \in DOMAIN req.form
    /\ \A a \in DOMAIN req.form : ~ParseFloat(req.form[a][1]).err

InsertedOneRow == Len(dbRows') = Len(dbRows) + 1 /\ SubSeq(dbRows', 1, Len(dbRows)) = dbRows

AnsweredOk == osResp'.status = 200 /\ osResp'.body = "ok"

\* C15 as claimed: a request inserts exactly one row and is answered ok if
\* and only if lat and lon are supplied and every supplied argument parses;
\* otherwise it is answered with 400 and the table is unchanged.
C15_InsertIffArgsGood ==
    [][ osN' = osN + 1 =>
          /\ (InsertedOneRow /\ AnsweredOk) <=> ArgsGood(osReq')
          /\ ~ArgsGood(osReq') => (osResp'.status = 400 /\ dbRows' = dbRows) ]_vars

\* C15 as amended: the same provided r.ParseForm() and the INSERT succeed;
\* when either fails the answer is 500 and the table is unchanged.
C15_InsertIffArgsGoodAndNoFailure ==
    [][ osN' = osN + 1 =>
          LET req == osReq'
              accept == ~req.parseFormErr /\ ArgsGood(req) /\ ~req.dbErr
          IN  /\ (InsertedOneRow /\ AnsweredOk) <=> accept
              /\ (~req.parseFormErr /\ ~ArgsGood(req)) =>
                    (osResp'.status = 400 /\ dbRows' = dbRows)
              /\ (req.parseFormErr \/ (ArgsGood(req) /\ req.dbErr)) =>
                    (osResp'.status = 500 /\ dbRows' = dbRows) ]_vars

\* C15 witness: a request with lat, lon and a speed that does not parse was
\* answered with 400 and the row of the table is still the only one.
C15_Witness ==
    /\ osN = 1
    /\ {"lat", "lon", "speed"} \subseteq DOMAIN osReq.form
    /\ ~ParseFloat(osReq.form["lat"][1]).err
    /\ ~ParseFloat(osReq.form["lon"][1]).err
    /\ ParseFloat(osReq.form["speed"][1]).err
    /\ osResp.status = 400
    /\ dbRows = << OldRow >>

====
